---- MODULE Spec2Model ----
(***************************************************************************)
(* A model of relatable::get_tagged_files (src/relatable/src/lib.rs): the  *)
(* deduplicating node registry HashSetGraph, the tag-file scan             *)
(* add_tags_to_graph and the filesystem walk add_file_structure_to_graph.  *)
(*                                                                         *)
(* A file name is the sequence of its dot-separated segments: "img.png"    *)
(* is <<"img", "png">>, "img" is <<"img">>, ".tags" is <<"", "tags">>.     *)
(* Two names are equal as strings exactly when they are equal as segment   *)
(* sequences.  A path is the sequence of the names from the root down, so  *)
(* the root itself is a path of length 1.  The tree holds regular files    *)
(* and directories only (no symbolic links), so canonicalize() either      *)
(* returns the path it is given or fails.                                  *)
(***************************************************************************)
EXTENDS Integers, Sequences, FiniteSets, TLC

VARIABLES
    fs,          \* the tree on disk: [root, kind, lines]
    tag_graph,   \* the HashSetGraph local of get_tagged_files: [nodes, edges, map]
    pc,          \* position in get_tagged_files: "start", "scan", "walk", "done"
    globTodo,    \* matches the glob iterator has not yielded yet
    walkStack,   \* WalkDir's stack of open directory iterators (entries left in each)
    result,      \* how the call ended: "none" (running), "Ok", "Err", "Panic"
    fault,       \* the failure that ended the call, "none" when there was none
    scanned,     \* tag files whose loop iteration of add_tags_to_graph completed
    walked,      \* entries the walk visited with Ok(entry)
    walkErrors,  \* entries for which the walk iterator yielded Err(e)
    panel        \* the consumer's bottom panel: one [node, tags] label per selected node shown

vars == <<fs, tag_graph, pc, globTodo, walkStack, result, fault, scanned, walked,
          walkErrors, panel>>

(***************************************************************************)
(* Bounds of the model.                                                    *)
(***************************************************************************)
MaxEntries == 3      \* entries under the root
MaxTagLines == 2     \* lines of all tag files of the tree together
MaxWalkErrors == 1   \* Err items the walk iterator yields in one build
MaxEdges == 2        \* edges of a registry driven by arbitrary calls

(***************************************************************************)
(* std::path::Path on names and paths.                                     *)
(***************************************************************************)
NoDot(n) == Len(n) = 1 \/ (Len(n) = 2 /\ n[1] = "")

\* Path::file_name: the last component.
file_name(p) == p[Len(p)]

\* Path::extension: None (<<>>) without an embedded dot, else Some (<<ext>>).
extension(p) ==
    LET n == file_name(p)
    IN  IF NoDot(n) THEN <<>> ELSE << n[Len(n)] >>

\* Path::file_stem: the whole name without an embedded dot, else the part
\* before the final dot.
file_stem(p) ==
    LET n == file_name(p)
    IN  IF NoDot(n) THEN n ELSE SubSeq(n, 1, Len(n) - 1)

\* Path::parent / PathBuf::pop.
parent(p) == SubSeq(p, 1, Len(p) - 1)

\* The glob pattern "*.tags" on one name: any name ending in ".tags".
MatchesTagsPattern(n) == Len(n) >= 2 /\ n[Len(n)] = "tags"

(***************************************************************************)
(* enum TagGraphNode and enum Relation.                                    *)
(***************************************************************************)
File(p) == [kind |-> "File", path |-> p, tag |-> ""]
Directory(p) == [kind |-> "Directory", path |-> p, tag |-> ""]
RootDirectory == [kind |-> "RootDirectory", path |-> <<>>, tag |-> ""]
RootTag == [kind |-> "RootTag", path |-> <<>>, tag |-> ""]
Tag(s) == [kind |-> "Tag", path |-> <<>>, tag |-> s]

Relation == {"Parent", "Child", "HasTag", "TagAssignedTo"}

(***************************************************************************)
(* struct HashSetGraph: graph is a StableGraph (node weights by NodeIndex, *)
(* here nodes[idx + 1], and edges in EdgeIndex order), map is the HashMap  *)
(* from node value to NodeIndex.                                           *)
(***************************************************************************)
new == [nodes |-> <<>>, edges |-> <<>>, map |-> <<>>]

\* StableGraph::add_node followed by map.insert (lines 209-210, 220-221).
add_node(g, weight) ==
    [g EXCEPT !.nodes = Append(@, weight),
              !.map = (weight :> Len(g.nodes)) @@ @]

\* HashSetGraph::get_node: the borrowing get-or-create.
get_node(g, weight) ==
    IF weight \in DOMAIN g.map
    THEN [g |-> g, idx |-> g.map[weight]]
    ELSE [g |-> add_node(g, weight), idx |-> Len(g.nodes)]

get_node_move_no_insert(g, weight) ==
    IF weight \in DOMAIN g.map
    THEN [g |-> g, idx |-> g.map[weight]]
    ELSE [g |-> [g EXCEPT !.nodes = Append(@, weight)], idx |-> Len(g.nodes)]

get_node_move_always_adds(g, weight) ==
    [g |-> add_node(g, weight), idx |-> Len(g.nodes)]

\* HashSetGraph::get_node_move: the consuming get-or-create.
get_node_move(g, weight) ==
    IF weight \in DOMAIN g.map
    THEN [g |-> g, idx |-> g.map[weight]]
    ELSE [g |-> add_node(g, weight), idx |-> Len(g.nodes)]

\* StableGraph::find_edge: the first edge from a to b, 0 when there is none.
find_edge(g, a, b) ==
    LET hits == {i \in DOMAIN g.edges : g.edges[i].src = a /\ g.edges[i].dst = b}
    IN  IF hits = {} THEN 0 ELSE CHOOSE i \in hits : \A j \in hits : i <= j

graph_update_edge_reinserts(g, a, b, weight) ==
    LET keep == SelectSeq(g.edges, LAMBDA e : ~(e.src = a /\ e.dst = b))
    IN  [g EXCEPT !.edges = Append(keep, [src |-> a, dst |-> b, w |-> weight])]

graph_update_edge_always_adds(g, a, b, weight) ==
    [g EXCEPT !.edges = Append(@, [src |-> a, dst |-> b, w |-> weight])]

\* StableGraph::update_edge: when an edge from a to b exists its weight is
\* replaced, otherwise an edge is added.
graph_update_edge(g, a, b, weight) ==
    LET ix == find_edge(g, a, b)
    IN  IF ix # 0
        THEN [g EXCEPT !.edges[ix].w = weight]
        ELSE [g EXCEPT !.edges = Append(@, [src |-> a, dst |-> b, w |-> weight])]

\* HashSetGraph::update_edge: both endpoints through get_node, then the edge.
update_edge(g, a, b, weight) ==
    LET ax == get_node(g, a)
        bx == get_node(ax.g, b)
    IN  graph_update_edge(bx.g, ax.idx, bx.idx, weight)

\* Views of a registry by value: the node values, and the edges as
\* (source value, target value, relation).
NodeValues(g) == {g.nodes[i] : i \in DOMAIN g.nodes}
weight_of(g, idx) == g.nodes[idx + 1]
ValueEdges(g) ==
    {[src |-> weight_of(g, g.edges[i].src), dst |-> weight_of(g, g.edges[i].dst),
      w |-> g.edges[i].w] : i \in DOMAIN g.edges}
HasEdge(g, a, b, weight) == [src |-> a, dst |-> b, w |-> weight] \in ValueEdges(g)

(***************************************************************************)
(* The trees a build is run on.  EntryPool holds the entries a tree may    *)
(* have under its root, each with its path relative to the root and its    *)
(* kind; a tree takes at most MaxEntries of them, closed under parents.    *)
(***************************************************************************)
RootName == <<"root">>
TagsRootName == <<"r", "tags">>
TagStrings == {"red", "blue"}

EntryPool ==
    { [rel |-> << <<"img", "png">> >>, kind |-> "file"],
      [rel |-> << <<"img">> >>, kind |-> "file"],
      [rel |-> << <<"img">> >>, kind |-> "dir"],
      [rel |-> << <<"image", "png">> >>, kind |-> "file"],
      [rel |-> << <<"img", "tags">> >>, kind |-> "file"],
      [rel |-> << <<"img", "tags">> >>, kind |-> "dir"],
      [rel |-> << <<"dir", "tags">> >>, kind |-> "file"],
      [rel |-> << <<"dir">> >>, kind |-> "file"],
      [rel |-> << <<"img">>, <<"dir", "tags">> >>, kind |-> "file"],
      [rel |-> << <<"img">>, <<"a", "txt">> >>, kind |-> "file"] }

\* The entries a tree may have under a root directory that is itself named
\* *.tags.
TagsRootPool ==
    { [rel |-> << <<"img", "png">> >>, kind |-> "file"],
      [rel |-> << <<"img">> >>, kind |-> "dir"],
      [rel |-> << <<"dir", "tags">> >>, kind |-> "file"],
      [rel |-> << <<"img">>, <<"a", "txt">> >>, kind |-> "file"] }

\* The entries of a tree in which one file is the target of two tag files:
\* img.tags matches img.png by stem, img.png.tags matches it by full name.
SharedTargetPool ==
    { [rel |-> << <<"img", "png">> >>, kind |-> "file"],
      [rel |-> << <<"img", "tags">> >>, kind |-> "file"],
      [rel |-> << <<"img", "png", "tags">> >>, kind |-> "file"] }

WellFormed(S) ==
    /\ Cardinality(S) <= MaxEntries
    /\ \A e1, e2 \in S : e1.rel = e2.rel => e1 = e2
    /\ \A e \in S : Len(e.rel) > 1 =>
          [rel |-> parent(e.rel), kind |-> "dir"] \in S

KindOf(rootName, S) ==
    [p \in {<<rootName>>} \cup {<<rootName>> \o e.rel : e \in S} |->
        IF p = <<rootName>> THEN "dir"
        ELSE (CHOOSE e \in S : <<rootName>> \o e.rel = p).kind]

RECURSIVE TotalLines(_, _)
TotalLines(f, S) ==
    IF S = {} THEN 0
    ELSE LET p == CHOOSE q \in S : TRUE
         IN  Len(f[p]) + TotalLines(f, S \ {p})

LineSeqs == UNION {[1..n -> TagStrings] : n \in 0..MaxTagLines}

Paths(t) == DOMAIN t.kind
IsDir(t, p) == p \in Paths(t) /\ t.kind[p] = "dir"
\* fs::read_dir / WalkDir: the entries directly inside directory d.
Children(t, d) == {p \in Paths(t) : Len(p) = Len(d) + 1 /\ parent(p) = d}
\* glob("{root}/**/*.tags"): every entry below the root, file or directory,
\* whose name matches *.tags.
GlobMatches(t) ==
    {p \in Paths(t) : Len(p) > 1 /\ MatchesTagsPattern(file_name(p))}

Trees ==
    { [root |-> <<RootName>>, kind |-> KindOf(RootName, S)] :
        S \in {S \in SUBSET EntryPool : WellFormed(S)} }
    \cup { [root |-> <<TagsRootName>>, kind |-> KindOf(TagsRootName, S)] :
        S \in {S \in SUBSET TagsRootPool : WellFormed(S)} }
    \cup { [root |-> <<RootName>>, kind |-> KindOf(RootName, S)] :
        S \in {S \in SUBSET SharedTargetPool : WellFormed(S)} }
    \cup { [root |-> <<RootName>>, kind |-> (<<RootName>> :> "file")] }

\* The regular files the glob matches are read as tag files.
TagFilesOf(t) == {p \in GlobMatches(t) : t.kind[p] = "file"}

Contents(t) ==
    {f \in [TagFilesOf(t) -> LineSeqs] : TotalLines(f, TagFilesOf(t)) <= MaxTagLines}

Init ==
    /\ \E t \in Trees : \E f \in Contents(t) :
          fs = [root |-> t.root, kind |-> t.kind, lines |-> f]
    /\ tag_graph = new
    /\ pc = "start"
    /\ globTodo = {}
    /\ walkStack = <<>>
    /\ result = "none"
    /\ fault = "none"
    /\ scanned = {}
    /\ walked = {}
    /\ walkErrors = {}
    /\ panel = <<>>

(***************************************************************************)
(* add_tags_to_graph.                                                      *)
(***************************************************************************)
Perms(S) ==
    {s \in [1..Cardinality(S) -> S] : \A i, j \in DOMAIN s : s[i] = s[j] => i = j}

entry_matches_any(file_path, tagfile_stem) == extension(file_path) # <<"tags">>

\* Lines 75-83: an entry of the tag file's directory is an attachment
\* target when its extension is not "tags" and its stem or its full name
\* equals the tag file's stem.
entry_matches(file_path, tagfile_stem) ==
    /\ extension(file_path) # <<"tags">>
    /\ (file_stem(file_path) = tagfile_stem \/ file_name(file_path) = tagfile_stem)

\* Lines 72-92: the loop over fs::read_dir(dirpath), entries in the order
\* the directory yields them; every match is registered as a File node.
RECURSIVE collect_targets(_, _, _, _)
collect_targets(g, entries, tagfile_stem, targets) ==
    IF entries = <<>> THEN [g |-> g, targets |-> targets]
    ELSE LET file_path == Head(entries)
         IN  IF entry_matches(file_path, tagfile_stem)
             THEN LET t == get_node_move(g, File(file_path))
                  IN  collect_targets(t.g, Tail(entries), tagfile_stem,
                                      Append(targets, t.idx))
             ELSE collect_targets(g, Tail(entries), tagfile_stem, targets)

RECURSIVE attach_to_targets(_, _, _)

attach_to_targets_first_only(g, t, targets) ==
    IF targets = <<>> THEN g
    ELSE LET g1 == graph_update_edge(g, Head(targets), t, "HasTag")
         IN  graph_update_edge(g1, t, Head(targets), "TagAssignedTo")

\* Lines 104-112: the edges of one tag to and from every attachment target.
attach_to_targets(g, t, targets) ==
    IF targets = <<>> THEN g
    ELSE LET g1 == graph_update_edge(g, Head(targets), t, "HasTag")
             g2 == graph_update_edge(g1, t, Head(targets), "TagAssignedTo")
         IN  attach_to_targets(g2, t, Tail(targets))

RECURSIVE attach_tags(_, _, _, _)
RECURSIVE attach_tags_unowned(_, _, _, _)

attach_tags_unowned(g, tag_root, tags, targets) ==
    IF tags = <<>> THEN g
    ELSE LET t == get_node_move(g, Tag(Head(tags)))
         IN  attach_tags_unowned(attach_to_targets(t.g, t.idx, targets), tag_root,
                                 Tail(tags), targets)

\* Lines 99-113: the loop over the lines of the tag file.
attach_tags(g, tag_root, tags, targets) ==
    IF tags = <<>> THEN g
    ELSE LET t == get_node_move(g, Tag(Head(tags)))
             g1 == graph_update_edge(t.g, tag_root, t.idx, "HasTag")
             g2 == graph_update_edge(g1, tag_root, t.idx, "HasTag")
         IN  attach_tags(attach_to_targets(g2, t.idx, targets), tag_root,
                         Tail(tags), targets)

is_dir_tagfile_never(name) == FALSE

\* Line 65: name == "dir.tags".
is_dir_tagfile(name) == name = <<"dir", "tags">>

\* Lines 56-96 for one tag file, every filesystem call succeeding: the
\* directory node, then the attachment targets.
scan_targets(g, tagfile, entries) ==
    LET dirpath == parent(tagfile)
        dir == get_node_move(g, Directory(dirpath))
    IN  IF is_dir_tagfile(file_name(tagfile))
        THEN [g |-> dir.g, targets |-> <<dir.idx>>]
        ELSE collect_targets(dir.g, entries, file_stem(tagfile), <<>>)

\* read_tagfile: a directory cannot be read as a file; a regular file
\* yields its lines unless the read fails.
read_tagfile_fails(t, tagfile) == t.kind[tagfile] = "dir"

\* What the scan does with a tag file whose canonicalize, read_dir or
\* read_tagfile returned Err: the ? operator returns the error (lines 56,
\* 72, 99), get_tagged_files returns it in turn (line 39) and its local
\* tag_graph is dropped.
scan_failure_swallowed(kind) ==
    /\ fault' = kind
    /\ UNCHANGED <<tag_graph, pc, result>>

scan_failure(kind) ==
    /\ fault' = kind
    /\ result' = "Err"
    /\ pc' = "done"
    /\ tag_graph' = new

\* Lines 49-52: the RootTag node, then the glob iterator.
StartScan ==
    /\ pc = "start"
    /\ tag_graph' = get_node(tag_graph, RootTag).g
    /\ globTodo' = GlobMatches(fs)
    /\ pc' = "scan"
    /\ UNCHANGED <<fs, panel, walkStack, result, fault, scanned, walked, walkErrors>>

\* Line 118: the glob iterator yields Err (a directory it cannot read):
\* todo!() panics.
GlobError ==
    /\ pc = "scan"
    /\ fault' = "glob"
    /\ result' = "Panic"
    /\ pc' = "done"
    /\ tag_graph' = new
    /\ globTodo' = {}
    /\ UNCHANGED <<fs, panel, walkStack, scanned, walked, walkErrors>>

\* One iteration of the loop of line 52 for a tag file the glob yields.
\* The glob yields every match once; the order among them, and the order
\* in which read_dir lists a directory, are left open.  canonicalize,
\* read_dir and read_tagfile may each fail; read_dir, when it succeeds,
\* yields every entry of the directory as Ok (an entry it yielded as Err
\* would be passed over by line 73).
ScanTagFile(tagfile) ==
    /\ pc = "scan"
    /\ tagfile \in globTodo
    /\ globTodo' = globTodo \ {tagfile}
    /\ UNCHANGED <<fs, panel, walkStack, walked, walkErrors>>
    /\ \/ /\ scan_failure("canonicalize")
          /\ UNCHANGED scanned
       \/ /\ ~is_dir_tagfile(file_name(tagfile))
          /\ scan_failure("read_dir")
          /\ UNCHANGED scanned
       \/ /\ scan_failure("read_tagfile")
          /\ UNCHANGED scanned
       \/ /\ ~read_tagfile_fails(fs, tagfile)
          /\ \E entries \in Perms(Children(fs, parent(tagfile))) :
                LET st == scan_targets(tag_graph, tagfile, entries)
                    tag_root == tag_graph.map[RootTag]
                IN  tag_graph' = attach_tags(st.g, tag_root, fs.lines[tagfile],
                                             st.targets)
          /\ scanned' = scanned \cup {tagfile}
          /\ UNCHANGED <<pc, result, fault>>

(***************************************************************************)
(* add_file_structure_to_graph.                                            *)
(***************************************************************************)
\* WalkDir keeps one iterator per open directory; an exhausted iterator is
\* popped before the next entry is looked for.
RECURSIVE pop_exhausted(_)
pop_exhausted(stack) ==
    IF stack # <<>> /\ stack[Len(stack)] = {}
    THEN pop_exhausted(SubSeq(stack, 1, Len(stack) - 1))
    ELSE stack

\* The stack after entry p was taken from the innermost open directory;
\* with descend, p is a directory whose iterator is opened next.
after_entry(stack, p, descend) ==
    LET top == Len(stack)
        rest == [stack EXCEPT ![top] = @ \ {p}]
    IN  pop_exhausted(IF descend THEN Append(rest, Children(fs, p)) ELSE rest)

\* Lines 133-137: the entry is skipped when its extension is "tags".
walk_skips(path) == extension(path) = <<"tags">>

\* Lines 139-147: a Directory node for a directory, a File node otherwise.
walk_node(t, path) == IF IsDir(t, path) THEN Directory(path) ELSE File(path)

walk_entry_child_only(g, t, path, dir_root) ==
    LET node == get_node_move(g, walk_node(t, path))
    IN  IF Len(path) = 1
        THEN graph_update_edge(node.g, dir_root, node.idx, "Child")
        ELSE LET par == get_node_move(node.g, Directory(parent(path)))
             IN  graph_update_edge(par.g, par.idx, node.idx, "Child")

\* Lines 139-160 for one entry, every canonicalize succeeding.
walk_entry(g, t, path, dir_root) ==
    LET node == get_node_move(g, walk_node(t, path))
    IN  IF Len(path) = 1      \* entry.depth() == 0
        THEN LET g1 == graph_update_edge(node.g, dir_root, node.idx, "Child")
             IN  graph_update_edge(g1, node.idx, dir_root, "Parent")
        ELSE LET par == get_node_move(node.g, Directory(parent(path)))
                 g1 == graph_update_edge(par.g, par.idx, node.idx, "Child")
             IN  graph_update_edge(g1, node.idx, par.idx, "Parent")

\* Lines 132 and 156: canonicalize().unwrap() panics when canonicalize
\* fails; the call never returns and every local is dropped.
walk_failure(kind) ==
    /\ fault' = kind
    /\ result' = "Panic"
    /\ pc' = "done"
    /\ tag_graph' = new

\* Line 40 after a scan that returned Ok(()), then lines 128-129: the
\* RootDirectory node and the walk iterator, which yields the root first.
StartWalk ==
    /\ pc = "scan"
    /\ globTodo = {}
    /\ tag_graph' = get_node(tag_graph, RootDirectory).g
    /\ walkStack' = << {fs.root} >>
    /\ pc' = "walk"
    /\ UNCHANGED <<fs, panel, globTodo, result, fault, scanned, walked, walkErrors>>

\* One iteration of the loop of line 129.  The walk is depth first, a
\* directory before its contents, the entries of one directory in the
\* order the directory yields them, which is left open.
WalkEntry(path) ==
    /\ pc = "walk"
    /\ walkStack # <<>>
    /\ path \in walkStack[Len(walkStack)]
    /\ UNCHANGED <<fs, panel, globTodo, scanned>>
    /\ \/ \* Err(e): logged, nothing else (lines 162-164); the entry and
          \* what is below it are not visited.
          /\ Cardinality(walkErrors) < MaxWalkErrors
          /\ walkErrors' = walkErrors \cup {path}
          /\ walkStack' = after_entry(walkStack, path, FALSE)
          /\ UNCHANGED <<tag_graph, pc, result, fault, walked>>
       \/ \* Ok(entry), canonicalize of the entry fails (line 132).
          /\ walk_failure("walk_canonicalize")
          /\ walkStack' = <<>>
          /\ UNCHANGED <<walked, walkErrors>>
       \/ \* Ok(entry) with the extension "tags": continue (line 135).
          /\ walk_skips(path)
          /\ walkStack' = after_entry(walkStack, path, IsDir(fs, path))
          /\ walked' = walked \cup {path}
          /\ UNCHANGED <<tag_graph, pc, result, fault, walkErrors>>
       \/ \* Ok(entry), canonicalize of its parent fails (line 156).
          /\ ~walk_skips(path)
          /\ Len(path) > 1
          /\ walk_failure("walk_parent_canonicalize")
          /\ walkStack' = <<>>
          /\ UNCHANGED <<walked, walkErrors>>
       \/ \* Ok(entry), visited.
          /\ ~walk_skips(path)
          /\ tag_graph' = walk_entry(tag_graph, fs, path,
                                     tag_graph.map[RootDirectory])
          /\ walkStack' = after_entry(walkStack, path, IsDir(fs, path))
          /\ walked' = walked \cup {path}
          /\ UNCHANGED <<pc, result, fault, walkErrors>>

\* Lines 168 and 42: the walk is over, Ok(tag_graph) is returned.
Finish ==
    /\ pc = "walk"
    /\ walkStack = <<>>
    /\ result' = "Ok"
    /\ pc' = "done"
    /\ UNCHANGED <<fs, panel, tag_graph, globTodo, walkStack, fault, scanned, walked, walkErrors>>

Next ==
    \/ StartScan
    \/ GlobError
    \/ \E tagfile \in GlobMatches(fs) : ScanTagFile(tagfile)
    \/ StartWalk
    \/ \E path \in Paths(fs) : WalkEntry(path)
    \/ Finish

Spec == Init /\ [][Next]_vars

(***************************************************************************)
(* get_tagged_files with lines 39 and 40 exchanged: the two passes of the  *)
(* source, the walk run first and the tag scan second, on the one          *)
(* registry.  The loops are the actions WalkEntry and ScanTagFile above;   *)
(* only the entry into each pass and the return differ.                    *)
(***************************************************************************)
\* Lines 128-129, entered from line 37 with the new registry.
WalkFirstStartWalk ==
    /\ pc = "start"
    /\ tag_graph' = get_node(tag_graph, RootDirectory).g
    /\ walkStack' = << {fs.root} >>
    /\ pc' = "walk"
    /\ UNCHANGED <<fs, panel, globTodo, result, fault, scanned, walked, walkErrors>>

\* Line 168 (the walk returns Ok(())), then lines 49-52.
WalkFirstStartScan ==
    /\ pc = "walk"
    /\ walkStack = <<>>
    /\ tag_graph' = get_node(tag_graph, RootTag).g
    /\ globTodo' = GlobMatches(fs)
    /\ pc' = "scan"
    /\ UNCHANGED <<fs, panel, walkStack, result, fault, scanned, walked, walkErrors>>

\* Lines 121 and 42: the scan is over, Ok(tag_graph) is returned.
WalkFirstFinish ==
    /\ pc = "scan"
    /\ globTodo = {}
    /\ result' = "Ok"
    /\ pc' = "done"
    /\ UNCHANGED <<fs, panel, tag_graph, globTodo, walkStack, fault, scanned, walked, walkErrors>>

NextWalkFirst ==
    \/ WalkFirstStartWalk
    \/ \E path \in Paths(fs) : WalkEntry(path)
    \/ WalkFirstStartScan
    \/ GlobError
    \/ \E tagfile \in GlobMatches(fs) : ScanTagFile(tagfile)
    \/ WalkFirstFinish

SpecWalkFirst == Init /\ [][NextWalkFirst]_vars

(***************************************************************************)
(* The consumer, TemplateApp::update: for a selected node, the tags found  *)
(* by a breadth-first search of the graph filtered by relation.            *)
(***************************************************************************)
\* app.rs lines 59-66: the EdgeFiltered predicate.
edge_filter(weight) ==
    CASE weight = "Parent" -> TRUE
      [] weight = "HasTag" -> TRUE
      [] weight = "TagAssignedTo" -> FALSE
      [] weight = "Child" -> FALSE

\* The neighbors of node n in the filtered graph, pushed on the queue when
\* not yet discovered.  StableGraph lists the outgoing edges of a node from
\* the newest to the oldest: i runs down from the last edge.
RECURSIVE push_neighbors(_, _, _, _, _)
push_neighbors(g, n, i, discovered, queue) ==
    IF i = 0 THEN [discovered |-> discovered, queue |-> queue]
    ELSE LET e == g.edges[i]
         IN  IF e.src = n /\ edge_filter(e.w) /\ e.dst \notin discovered
             THEN push_neighbors(g, n, i - 1, discovered \cup {e.dst},
                                 Append(queue, e.dst))
             ELSE push_neighbors(g, n, i - 1, discovered, queue)

\* app.rs lines 68-74: Bfs::new(&tag_graph, *node), then the loop over
\* bfs.next, pushing the string of every Tag node it yields.
RECURSIVE bfs_tags(_, _, _, _)
bfs_tags(g, queue, discovered, tags) ==
    IF queue = <<>> THEN tags
    ELSE LET n == Head(queue)
             nb == push_neighbors(g, n, Len(g.edges), discovered, Tail(queue))
             weight == weight_of(g, n)
         IN  bfs_tags(g, nb.queue, nb.discovered,
                      IF weight.kind = "Tag" THEN Append(tags, weight.tag) ELSE tags)

collect_tags(g, node) == bfs_tags(g, <<node>>, {node}, <<>>)

\* app.rs lines 52-78 for one selected node of the graph that
\* get_tagged_files returned (TemplateApp::new unwraps it, line 22).
Update(node) ==
    /\ pc = "done"
    /\ result = "Ok"
    /\ node \in 0..(Len(tag_graph.nodes) - 1)
    /\ panel' = << [node |-> node, tags |-> collect_tags(tag_graph, node)] >>
    /\ UNCHANGED <<fs, tag_graph, pc, globTodo, walkStack, result, fault, scanned,
                   walked, walkErrors>>

NextApp ==
    \/ Next
    \/ \E node \in DOMAIN tag_graph.map : Update(tag_graph.map[node])

SpecApp == Init /\ [][NextApp]_vars

(***************************************************************************)
(* The registry on its own: any sequence of the public operations of       *)
(* HashSetGraph from new(), on a small set of node values.                 *)
(***************************************************************************)
RegistryValues == {RootTag, Tag("red"), File(<<RootName, <<"img">> >>)}
RegistryRelations == {"HasTag", "TagAssignedTo"}

RegistryInit ==
    /\ tag_graph = new
    /\ pc = "registry"
    /\ fs = [root |-> <<RootName>>, kind |-> (<<RootName>> :> "dir"), lines |-> <<>>]
    /\ globTodo = {}
    /\ walkStack = <<>>
    /\ result = "none"
    /\ fault = "none"
    /\ scanned = {}
    /\ walked = {}
    /\ walkErrors = {}
    /\ panel = <<>>

RegistryFrame ==
    UNCHANGED <<fs, panel, pc, globTodo, walkStack, result, fault, scanned, walked, walkErrors>>

GetNode(weight) ==
    /\ pc = "registry"
    /\ tag_graph' = get_node(tag_graph, weight).g
    /\ RegistryFrame

GetNodeMove(weight) ==
    /\ pc = "registry"
    /\ tag_graph' = get_node_move(tag_graph, weight).g
    /\ RegistryFrame

UpdateEdge(a, b, weight) ==
    /\ pc = "registry"
    /\ tag_graph' = update_edge(tag_graph, a, b, weight)
    /\ Len(tag_graph'.edges) <= MaxEdges
    /\ RegistryFrame

RegistryNext ==
    \/ \E weight \in RegistryValues : GetNode(weight)
    \/ \E weight \in RegistryValues : GetNodeMove(weight)
    \/ \E a, b \in RegistryValues : \E weight \in RegistryRelations : UpdateEdge(a, b, weight)

SpecRegistry == RegistryInit /\ [][RegistryNext]_vars

(***************************************************************************)
(* Vocabulary of the properties.                                           *)
(***************************************************************************)
PathBearing(n) == n.kind \in {"File", "Directory"}

\* The path-bearing nodes of g for path p.
PathNodes(g, p) == {n \in NodeValues(g) : PathBearing(n) /\ n.path = p}

\* The node that stands for entry p of the tree: a Directory node for a
\* directory, a File node for a regular file.
NodeOf(p) == IF IsDir(fs, p) THEN Directory(p) ELSE File(p)

IsDirTags(tagfile) == file_name(tagfile) = <<"dir", "tags">>

\* The attachment targets of a generic tag file: the entries of its
\* directory without the tags extension whose name or stem is its stem.
StemTargets(tagfile) ==
    {e \in Children(fs, parent(tagfile)) :
        /\ extension(e) # <<"tags">>
        /\ (file_name(e) = file_stem(tagfile) \/ file_stem(e) = file_stem(tagfile))}

\* The edges of g with a File or Directory endpoint drawn from set N.
EdgesAt(g, N) == {e \in ValueEdges(g) : e.src \in N \/ e.dst \in N}
TagEdgesAt(g, N) == {e \in EdgesAt(g, N) : e.w \in {"HasTag", "TagAssignedTo"}}
PathBearingNodes(g) == {n \in NodeValues(g) : PathBearing(n)}

\* This step is the completed loop iteration for tagfile.
ScanStepOf(tagfile) ==
    tagfile \in globTodo /\ tagfile \notin globTodo' /\ tagfile \in scanned'

\* The paths the tag scan has referenced: the directory of every scanned
\* tag file and the stem-matched targets of every generic one.
ScanReferenced ==
    UNION { {parent(t)} \cup (IF IsDirTags(t) THEN {} ELSE StemTargets(t)) :
            t \in scanned }

ScanFaults == {"canonicalize", "read_dir", "read_tagfile"}
WalkFaults == {"walk_canonicalize", "walk_parent_canonicalize"}

(***************************************************************************)
(* C1 (as claimed): in the finished graph every path that the tag scan     *)
(* referenced and the walk visited has exactly one path-bearing node.      *)
(***************************************************************************)
C1_OneNodePerPath ==
    result = "Ok" =>
        \A p \in ScanReferenced \cap walked :
            Cardinality(PathNodes(tag_graph, p)) = 1

(***************************************************************************)
(* C2: after any sequence of get_node, get_node_move and update_edge from  *)
(* new(), the map is injective, every handle in it names a node whose      *)
(* weight is its key, there are as many nodes as map entries and no two    *)
(* handles carry equal values.                                             *)
(***************************************************************************)
C2_RegistryBijection ==
    LET g == tag_graph
    IN  /\ \A v1, v2 \in DOMAIN g.map : g.map[v1] = g.map[v2] => v1 = v2
        /\ \A v \in DOMAIN g.map :
              /\ g.map[v] \in 0..(Len(g.nodes) - 1)
              /\ weight_of(g, g.map[v]) = v
        /\ Len(g.nodes) = Cardinality(DOMAIN g.map)
        /\ \A i, j \in DOMAIN g.nodes : g.nodes[i] = g.nodes[j] => i = j

C2_Witness ==
    /\ pc = "registry"
    /\ Len(tag_graph.nodes) = Cardinality(RegistryValues)
    /\ Len(tag_graph.edges) >= 1

(***************************************************************************)
(* C3 (as claimed): an edge, once present, stays present with its          *)
(* relation whatever update_edge is applied later, so two relations on one *)
(* ordered pair coexist.                                                   *)
(***************************************************************************)
C3_EdgesCoexist ==
    [][ValueEdges(tag_graph) \subseteq ValueEdges(tag_graph')]_vars

(***************************************************************************)
(* C4 (as claimed): the loop iteration for a generic tag file gives every  *)
(* entry of its directory that has no tags extension and whose name or     *)
(* stem is the tag file's stem, for every line, a HasTag edge from the     *)
(* entry's node to the Tag and a TagAssignedTo edge back, and changes no   *)
(* tag edge at any other entry of the directory.                           *)
(***************************************************************************)
C4_StemMatching ==
    [][\A tagfile \in GlobMatches(fs) :
          (ScanStepOf(tagfile) /\ ~IsDirTags(tagfile)) =>
              /\ \A e \in StemTargets(tagfile) :
                    \A i \in DOMAIN fs.lines[tagfile] :
                        LET t == Tag(fs.lines[tagfile][i])
                        IN  /\ HasEdge(tag_graph', NodeOf(e), t, "HasTag")
                            /\ HasEdge(tag_graph', t, NodeOf(e), "TagAssignedTo")
              /\ \A e \in Children(fs, parent(tagfile)) \ StemTargets(tagfile) :
                    TagEdgesAt(tag_graph', {File(e), Directory(e)})
                        = TagEdgesAt(tag_graph, {File(e), Directory(e)})
      ]_vars

(***************************************************************************)
(* C5: the loop iteration for a tag file named dir.tags in directory D     *)
(* gives D's Directory node, for every line, a HasTag edge to the Tag and  *)
(* a TagAssignedTo edge back; it adds no other path-bearing node and       *)
(* changes no edge at any other path-bearing node, so no sibling entry     *)
(* (an entry named dir included) gets a tag edge from it.                  *)
(***************************************************************************)
C5_DirTagsScoping ==
    [][\A tagfile \in GlobMatches(fs) :
          (ScanStepOf(tagfile) /\ IsDirTags(tagfile)) =>
              LET D == Directory(parent(tagfile))
                  others(g) == PathBearingNodes(g) \ {D}
              IN  /\ \A i \in DOMAIN fs.lines[tagfile] :
                        LET t == Tag(fs.lines[tagfile][i])
                        IN  /\ HasEdge(tag_graph', D, t, "HasTag")
                            /\ HasEdge(tag_graph', t, D, "TagAssignedTo")
                  /\ others(tag_graph') = others(tag_graph)
                  /\ EdgesAt(tag_graph', others(tag_graph'))
                        = EdgesAt(tag_graph, others(tag_graph))
      ]_vars

C5_Witness ==
    \E tagfile \in scanned :
        /\ IsDirTags(tagfile)
        /\ fs.lines[tagfile] # <<>>
        /\ parent(tagfile) \o << <<"dir">> >> \in Paths(fs)
        /\ HasEdge(tag_graph, Directory(parent(tagfile)),
                   Tag(fs.lines[tagfile][1]), "HasTag")

(***************************************************************************)
(* C6: the loop iteration for a generic tag file with no stem-matched      *)
(* entry, when no filesystem call fails, does not end the build: the scan  *)
(* goes on with the remaining tag files, every line of the file has a Tag  *)
(* node with a HasTag edge from RootTag, and no edge at any File or        *)
(* Directory node is added or changed.                                     *)
(***************************************************************************)
C6_ZeroMatch ==
    [][\A tagfile \in GlobMatches(fs) :
          ( /\ tagfile \in globTodo
            /\ tagfile \notin globTodo'
            /\ fault' = "none"
            /\ ~IsDirTags(tagfile)
            /\ StemTargets(tagfile) = {} ) =>
              /\ result' = "none"
              /\ pc' = "scan"
              /\ globTodo' = globTodo \ {tagfile}
              /\ tagfile \in scanned'
              /\ \A i \in DOMAIN fs.lines[tagfile] :
                    LET t == Tag(fs.lines[tagfile][i])
                    IN  /\ t \in NodeValues(tag_graph')
                        /\ HasEdge(tag_graph', RootTag, t, "HasTag")
              /\ EdgesAt(tag_graph', PathBearingNodes(tag_graph'))
                    = EdgesAt(tag_graph, PathBearingNodes(tag_graph))
      ]_vars

C6_Witness ==
    \E tagfile \in scanned :
        /\ ~IsDirTags(tagfile)
        /\ StemTargets(tagfile) = {}
        /\ Children(fs, parent(tagfile)) \ GlobMatches(fs) # {}
        /\ fs.lines[tagfile] # <<>>
        /\ HasEdge(tag_graph, RootTag, Tag(fs.lines[tagfile][1]), "HasTag")
        /\ globTodo # {}
        /\ pc = "scan"

(***************************************************************************)
(* C7: when canonicalizing a tag file's path, listing its directory or     *)
(* reading it fails, the call returns Err, the walk is never started, and  *)
(* the graph built so far is dropped with the call's frame.                *)
(***************************************************************************)
C7_ScannerFailFast ==
    fault \in ScanFaults =>
        /\ result = "Err"
        /\ pc = "done"
        /\ tag_graph = new
        /\ walked = {} /\ walkErrors = {} /\ walkStack = <<>>
        /\ ~ENABLED StartWalk
        /\ ~ENABLED (\E path \in Paths(fs) : WalkEntry(path))
        /\ ~ENABLED Finish

C7_Witness ==
    /\ fault = "read_tagfile"
    /\ result = "Err"
    /\ scanned # {}
    /\ \E tagfile \in scanned : fs.lines[tagfile] # <<>>

(***************************************************************************)
(* C8 (as claimed): when the visit of an entry fails during the walk,      *)
(* after other entries were visited, the entry is skipped and the build    *)
(* still returns Ok, with every visited entry below the root that has no   *)
(* tags extension wired to its parent.                                     *)
(***************************************************************************)
C8_WalkerLenient ==
    (pc = "done" /\ walked # {} /\ (walkErrors # {} \/ fault \in WalkFaults)) =>
        /\ result = "Ok"
        /\ \A p \in walked :
              (extension(p) # <<"tags">> /\ Len(p) > 1) =>
                  /\ HasEdge(tag_graph, Directory(parent(p)), NodeOf(p), "Child")
                  /\ HasEdge(tag_graph, NodeOf(p), Directory(parent(p)), "Parent")

(***************************************************************************)
(* C9 (as claimed): a call ends with Ok or with Err, never otherwise.      *)
(***************************************************************************)
C9_OutcomeDichotomy ==
    pc = "done" => result \in {"Ok", "Err"}

(***************************************************************************)
(* C10 (as claimed): in the finished graph no File or Directory node whose *)
(* path has the tags extension is an endpoint of an edge.                  *)
(***************************************************************************)
C10_NoTagsEndpoint ==
    result = "Ok" =>
        \A e \in ValueEdges(tag_graph) :
            /\ PathBearing(e.src) => extension(e.src.path) # <<"tags">>
            /\ PathBearing(e.dst) => extension(e.dst.path) # <<"tags">>

(***************************************************************************)
(* C11 (as claimed): in a finished graph the walked root has exactly one   *)
(* Child edge from RootDirectory and one Parent edge to it, every other    *)
(* walked entry without the tags extension has exactly one Child edge from *)
(* and one Parent edge to the Directory node of its containing directory,  *)
(* and there is no other Parent or Child edge.                             *)
(***************************************************************************)
EdgeCount(g, a, b, weight) ==
    Cardinality({i \in DOMAIN g.edges :
        /\ weight_of(g, g.edges[i].src) = a
        /\ weight_of(g, g.edges[i].dst) = b
        /\ g.edges[i].w = weight})

\* The node an entry is wired to: RootDirectory for the root, the
\* Directory node of the containing directory for any other entry.
WiredTo(p) == IF Len(p) = 1 THEN RootDirectory ELSE Directory(parent(p))

WiredEntries == {p \in walked : Len(p) = 1 \/ extension(p) # <<"tags">>}

C11_RootWiring ==
    result = "Ok" =>
        /\ \A p \in WiredEntries :
              /\ EdgeCount(tag_graph, WiredTo(p), NodeOf(p), "Child") = 1
              /\ EdgeCount(tag_graph, NodeOf(p), WiredTo(p), "Parent") = 1
        /\ \A e \in ValueEdges(tag_graph) :
              /\ e.w = "Child" =>
                    \E p \in WiredEntries : e.src = WiredTo(p) /\ e.dst = NodeOf(p)
              /\ e.w = "Parent" =>
                    \E p \in WiredEntries : e.src = NodeOf(p) /\ e.dst = WiredTo(p)

(***************************************************************************)
(* C12: the node values and the (source, target, relation) edges of a      *)
(* finished build in which no entry failed are determined by the tree      *)
(* alone, each edge being present once: whatever the order of the tag      *)
(* files, of the entries of a tag file's directory and of the walk, two    *)
(* builds of one tree differ in the handle numbering only.                 *)
(***************************************************************************)
TagsOf(tagfile) == {Tag(fs.lines[tagfile][i]) : i \in DOMAIN fs.lines[tagfile]}

\* The nodes a tag file's tags are attached to.
AttachNodes(tagfile) ==
    IF IsDirTags(tagfile) THEN {Directory(parent(tagfile))}
    ELSE {File(e) : e \in StemTargets(tagfile)}

NonTagPaths == {p \in Paths(fs) : extension(p) # <<"tags">>}

TreeNodes ==
    {RootTag, RootDirectory}
    \cup UNION { {Directory(parent(tf))} \cup AttachNodes(tf) \cup TagsOf(tf) :
                 tf \in GlobMatches(fs) }
    \cup UNION { {NodeOf(p)} \cup (IF Len(p) > 1 THEN {WiredTo(p)} ELSE {}) :
                 p \in NonTagPaths }

TreeEdges ==
    UNION { {[src |-> RootTag, dst |-> t, w |-> "HasTag"] : t \in TagsOf(tf)}
            \cup {[src |-> n, dst |-> t, w |-> "HasTag"] :
                    n \in AttachNodes(tf), t \in TagsOf(tf)}
            \cup {[src |-> t, dst |-> n, w |-> "TagAssignedTo"] :
                    n \in AttachNodes(tf), t \in TagsOf(tf)} :
            tf \in GlobMatches(fs) }
    \cup UNION { { [src |-> WiredTo(p), dst |-> NodeOf(p), w |-> "Child"],
                   [src |-> NodeOf(p), dst |-> WiredTo(p), w |-> "Parent"] } :
                 p \in NonTagPaths }

C12_BuildDeterminedByTree ==
    (result = "Ok" /\ walkErrors = {}) =>
        /\ NodeValues(tag_graph) = TreeNodes
        /\ Len(tag_graph.nodes) = Cardinality(TreeNodes)
        /\ ValueEdges(tag_graph) = TreeEdges
        /\ Len(tag_graph.edges) = Cardinality(TreeEdges)

\* A finished build that scanned dir.tags after img.tags and gave the walk
\* two entries of one directory to order.
C12_Witness ==
    /\ result = "Ok" /\ walkErrors = {}
    /\ \E t1, t2 \in scanned :
          /\ IsDirTags(t2) /\ ~IsDirTags(t1) /\ parent(t1) = parent(t2)
          /\ StemTargets(t1) # {}
          /\ fs.lines[t1] # <<>> /\ fs.lines[t2] # <<>>
          /\ fs.lines[t1][1] # fs.lines[t2][1]
          /\ tag_graph.map[Tag(fs.lines[t1][1])] < tag_graph.map[Tag(fs.lines[t2][1])]

(***************************************************************************)
(* C13 (as claimed): a finished build that ran the walk before the tag     *)
(* scan, no entry failing, has the node values and the edges the           *)
(* implemented order gives for the tree, and every path that both passes   *)
(* reached has one path-bearing node.                                      *)
(***************************************************************************)
C13_PassOrderCommutes ==
    (result = "Ok" /\ walkErrors = {}) =>
        /\ NodeValues(tag_graph) = TreeNodes
        /\ ValueEdges(tag_graph) = TreeEdges
        /\ \A p \in ScanReferenced \cap walked :
              Cardinality(PathNodes(tag_graph, p)) = 1

(***************************************************************************)
(* C14: in every state of a build at most one node is RootTag and at most  *)
(* one is RootDirectory; in a finished graph every Tag node has exactly    *)
(* one incoming HasTag edge from RootTag, and every edge at RootTag leaves *)
(* RootTag and ends in a Tag node.                                         *)
(***************************************************************************)
NodeCount(g, v) == Cardinality({i \in DOMAIN g.nodes : g.nodes[i] = v})

TagNodes(g) == {n \in NodeValues(g) : n.kind = "Tag"}

C14_AnchorNodes ==
    /\ NodeCount(tag_graph, RootTag) <= 1
    /\ NodeCount(tag_graph, RootDirectory) <= 1
    /\ result = "Ok" =>
          /\ \A t \in TagNodes(tag_graph) :
                EdgeCount(tag_graph, RootTag, t, "HasTag") = 1
          /\ \A e \in EdgesAt(tag_graph, {RootTag}) :
                e.src = RootTag /\ e.dst.kind = "Tag"

\* A finished build with both anchors, one tag from a tag file without
\* targets and another tag from a dir.tags file.
C14_Witness ==
    /\ result = "Ok"
    /\ NodeCount(tag_graph, RootTag) = 1
    /\ NodeCount(tag_graph, RootDirectory) = 1
    /\ \E t1, t2 \in scanned :
          /\ ~IsDirTags(t1) /\ StemTargets(t1) = {} /\ fs.lines[t1] # <<>>
          /\ IsDirTags(t2) /\ fs.lines[t2] # <<>>
          /\ fs.lines[t1][1] # fs.lines[t2][1]

(***************************************************************************)
(* C15: in a finished graph no two edges have the same source node, target *)
(* node and relation, and every tag string has one Tag node, however often *)
(* the string occurs in the tag files and however many tag files attach to *)
(* one entry.                                                              *)
(***************************************************************************)
C15_NoDuplicateEdges ==
    result = "Ok" =>
        /\ \A i, j \in DOMAIN tag_graph.edges :
              tag_graph.edges[i] = tag_graph.edges[j] => i = j
        /\ \A t \in TagNodes(tag_graph) : NodeCount(tag_graph, t) = 1

\* A finished build in which two tag files carry the same tag string and
\* attach it to the same entry.
C15_Witness ==
    /\ result = "Ok"
    /\ \E t1, t2 \in scanned :
          /\ t1 # t2 /\ ~IsDirTags(t1) /\ ~IsDirTags(t2)
          /\ StemTargets(t1) \cap StemTargets(t2) # {}
          /\ fs.lines[t1] # <<>> /\ fs.lines[t1] = fs.lines[t2]
          /\ \E e \in StemTargets(t1) :
                EdgeCount(tag_graph, File(e), Tag(fs.lines[t1][1]), "HasTag") = 1

(***************************************************************************)
(* C16: every step of a build that leaves the build with its graph keeps   *)
(* every node at its handle with its value, every edge at its index with   *)
(* its endpoints and its relation, and every entry of the map: nodes and   *)
(* edges are only added.  (A build that fails has no graph left.)          *)
(***************************************************************************)
Extends(old, now) ==
    /\ Len(now) >= Len(old)
    /\ \A i \in DOMAIN old : now[i] = old[i]

GraphGrows ==
    /\ Extends(tag_graph.nodes, tag_graph'.nodes)
    /\ Extends(tag_graph.edges, tag_graph'.edges)
    /\ \A v \in DOMAIN tag_graph.map :
          v \in DOMAIN tag_graph'.map /\ tag_graph'.map[v] = tag_graph.map[v]

C16_MonotonicBuild == [][result' \in {"none", "Ok"} => GraphGrows]_vars

\* A finished build in which the scan met one tag string in two tag files
\* and the walk then visited two entries or more.
C16_Witness ==
    /\ result = "Ok"
    /\ Cardinality(walked) >= 2
    /\ Len(tag_graph.edges) >= 4
    /\ \E t1, t2 \in scanned :
          /\ t1 # t2
          /\ fs.lines[t1] # <<>> /\ fs.lines[t1] = fs.lines[t2]

(***************************************************************************)
(* C17: in every registry state reached by the public operations, and for  *)
(* every node value, get_node and get_node_move return the same handle and *)
(* leave the same registry (nodes, edges and map).                         *)
(***************************************************************************)
C17_LookupsAgree ==
    \A v \in RegistryValues : get_node(tag_graph, v) = get_node_move(tag_graph, v)

\* A registry with an edge in which one value is registered and another is
\* not: the two lookups are compared on a hit and on a miss.
C17_Witness ==
    /\ pc = "registry"
    /\ tag_graph.edges # <<>>
    /\ \E v, u \in RegistryValues :
          /\ v \in DOMAIN tag_graph.map /\ get_node_move(tag_graph, v).g = tag_graph
          /\ u \notin DOMAIN tag_graph.map
          /\ get_node_move(tag_graph, u).idx = Len(tag_graph.nodes)

(***************************************************************************)
(* C18: in a finished graph there is a Child edge a->b exactly when there  *)
(* is a Parent edge b->a, and for every node x other than RootTag a HasTag *)
(* edge x->t exactly when there is a TagAssignedTo edge t->x.              *)
(***************************************************************************)
Inverse(w) ==
    CASE w = "Child" -> "Parent"
      [] w = "Parent" -> "Child"
      [] w = "HasTag" -> "TagAssignedTo"
      [] w = "TagAssignedTo" -> "HasTag"

C18_InversePairs ==
    result = "Ok" =>
        \A e \in ValueEdges(tag_graph) :
            (e.w = "HasTag" /\ e.src = RootTag)
            \/ HasEdge(tag_graph, e.dst, e.src, Inverse(e.w))

\* A finished graph with the four relations: an entry below the root that
\* the walk wired to its directory and a tag attached to a target.
C18_Witness ==
    /\ result = "Ok"
    /\ \E e \in ValueEdges(tag_graph) : e.w = "Child" /\ e.src.kind = "Directory"
    /\ \E e \in ValueEdges(tag_graph) : e.w = "Parent" /\ e.dst.kind = "Directory"
    /\ \E e \in ValueEdges(tag_graph) : e.w = "HasTag" /\ e.src.kind = "File"
    /\ \E e \in ValueEdges(tag_graph) : e.w = "TagAssignedTo" /\ e.dst.kind = "File"

(***************************************************************************)
(* C19 (as claimed): in a finished graph of a build in which no entry      *)
(* failed, every File or Directory node has exactly one outgoing Parent    *)
(* edge, and following Parent edges from it reaches RootDirectory.         *)
(***************************************************************************)
OutCount(g, n, weight) ==
    Cardinality({i \in DOMAIN g.edges :
        weight_of(g, g.edges[i].src) = n /\ g.edges[i].w = weight})

ParentsOf(g, n) == {e.dst : e \in {x \in ValueEdges(g) : x.src = n /\ x.w = "Parent"}}

RECURSIVE ReachesRootDirectory(_, _, _)
ReachesRootDirectory(g, n, fuel) ==
    IF n = RootDirectory THEN TRUE
    ELSE IF fuel = 0 THEN FALSE
    ELSE \E m \in ParentsOf(g, n) : ReachesRootDirectory(g, m, fuel - 1)

C19_TreeConnectivity ==
    (result = "Ok" /\ walkErrors = {}) =>
        \A n \in PathBearingNodes(tag_graph) :
            /\ OutCount(tag_graph, n, "Parent") = 1
            /\ ReachesRootDirectory(tag_graph, n, Len(tag_graph.nodes))

(***************************************************************************)
(* C20 (as claimed): for a selected File or Directory node n of a finished *)
(* graph (no entry failed), the tags the consumer collects are exactly the *)
(* tags attached by HasTag to n or to the Directory node of a directory    *)
(* above n's path, each once.                                              *)
(***************************************************************************)
AncestorDirectories(p) == {Directory(SubSeq(p, 1, k)) : k \in 1..(Len(p) - 1)}

AttachedTags(g, N) ==
    {e.dst.tag : e \in {x \in ValueEdges(g) : x.src \in N /\ x.w = "HasTag"}}

SeqToSet(q) == {q[i] : i \in DOMAIN q}

C20_ConsumerTags ==
    \A i \in DOMAIN panel :
        LET n == weight_of(tag_graph, panel[i].node)
        IN  (PathBearing(n) /\ walkErrors = {}) =>
               /\ SeqToSet(panel[i].tags)
                     = AttachedTags(tag_graph, {n} \cup AncestorDirectories(n.path))
               /\ Len(panel[i].tags) = Cardinality(SeqToSet(panel[i].tags))

====
